---- MODULE Spec2Model ----
(***************************************************************************)
(* Model of the tactical panel engine (src/utils.py) and of the page       *)
(* script that drives it (src/app.py).                                     *)
(*                                                                         *)
(* Numbers.  Prices are integers counted in thousandths of the currency    *)
(* unit (1000 is 1.00), volumes are integers.  Every derived float (the    *)
(* percentile, the put/call ratio, the RSI, a rolling mean) is an exact    *)
(* fraction <<num, den>> with den > 0, and NaN is the empty tuple; float   *)
(* rounding error is not modelled.  A comparison with NaN is false, as in  *)
(* IEEE-754.                                                               *)
(*                                                                         *)
(* Python values.  None is the empty tuple where a number is expected.  A  *)
(* dict is a set of <<key, value>> pairs; an optional dict is a record     *)
(* [none, items].  A DataFrame is [none, bars, columns, RSI]: the price    *)
(* rows, the set of indicator columns present, and the RSI column.         *)
(***************************************************************************)
EXTENDS Integers, Sequences, FiniteSets, TLC

VARIABLES pc, ticker, df, info, options_data, tactical_panel, calls, ui, backtest

vars == <<pc, ticker, df, info, options_data, tactical_panel, calls, ui, backtest>>

----------------------------------------------------------------------------
(* Program constants *)

TacticalWindow == 8
VolumeWindow == 20
RsiWindow == 14
Epsilon == 10
DefaultRsi == 50
DeepValueMax == 25
RangeBoundMax == 75
RsiOversold == 35
RsiOverbought == 70

(* Fractions written in the source as decimal literals *)
DefaultPcr == <<1, 1>>
PcrBullish == <<6, 10>>
PcrBearish == <<12, 10>>
PcrOversold == <<7, 10>>
NearResistance == <<95, 100>>
SurgeFactor == <<3, 2>>

----------------------------------------------------------------------------
(* Floats *)

NaN == <<>>
NoneVal == <<>>

IsNum(x) == Len(x) = 2

\* a < b on floats: false when either side is NaN
FloatLt(a, b) == IsNum(a) /\ IsNum(b) /\ a[1] * b[2] < b[1] * a[2]
FloatGt(a, b) == FloatLt(b, a)
FloatLe(a, b) == IsNum(a) /\ IsNum(b) /\ a[1] * b[2] <= b[1] * a[2]
FloatGe(a, b) == FloatLe(b, a)
FloatEq(a, b) == IsNum(a) /\ IsNum(b) /\ a[1] * b[2] = b[1] * a[2]

FloatMul(a, b) == IF IsNum(a) /\ IsNum(b) THEN <<a[1] * b[1], a[2] * b[2]>> ELSE NaN

\* n / d with the sign carried by the numerator (d # 0)
Frac(n, d) == IF d < 0 THEN <<-n, -d>> ELSE <<n, d>>

\* format(x, ".2f") of a non-negative float: the value in hundredths, rounded
\* to nearest, ties to even
Fmt2(x) ==
    LET n == 100 * x[1]
        q == n \div x[2]
        r == n % x[2]
    IN  IF 2 * r > x[2] THEN q + 1
        ELSE IF 2 * r < x[2] THEN q
        ELSE IF q % 2 = 0 THEN q ELSE q + 1

Price(p) == <<p, 1000>>

----------------------------------------------------------------------------
(* Series and dicts *)

Range(s) == { s[i] : i \in 1..Len(s) }

Min(S) == CHOOSE m \in S : \A x \in S : m <= x
Max(S) == CHOOSE m \in S : \A x \in S : x <= m

RECURSIVE Sum(_)
Sum(s) == IF s = <<>> THEN 0 ELSE Head(s) + Sum(Tail(s))

Column(bars, name) == [i \in 1..Len(bars) |-> bars[i][name]]

\* DataFrame.tail(n): the last n rows, or all of them when there are fewer
tail(bars, n) ==
    IF Len(bars) <= n THEN bars ELSE SubSeq(bars, Len(bars) - n + 1, Len(bars))

\* faulty variant: the mean of the values there are, as rolling(w, min_periods=1)
RollingMeanLast_Partial(s, w) == <<Sum(tail(s, w)), Len(tail(s, w))>>

\* Series.rolling(w).mean().iloc[-1]: NaN until w values are there
RollingMeanLast(s, w) ==
    IF Len(s) < w THEN NaN ELSE <<Sum(tail(s, w)), w>>

\* Python truthiness of an optional dict: None and {} are false
Truthy(d) == ~d.none /\ d.items # {}

\* dict.get(key, default)
DictGet(d, key, default) ==
    IF \E p \in d.items : p[1] = key
    THEN (CHOOSE p \in d.items : p[1] = key)[2]
    ELSE default

\* DataFrame.empty
Empty(d) == d.bars = <<>>

----------------------------------------------------------------------------
(* generate_tactical_panel, src/utils.py lines 135-216 *)

current_price(d) == d.bars[Len(d.bars)].Close

\* faulty variant: the band is taken over the whole series
recent_tactical_All(d) == d.bars

recent_tactical(d) == tail(d.bars, TacticalWindow)

support_level(d) == Min(Range(Column(recent_tactical(d), "Low")))

resistance_level(d) == Max(Range(Column(recent_tactical(d), "High")))

\* line 151: a number <<v>>, or None when info is non-empty and has no numeric
\* fiftyTwoWeekHigh
high_52w_raw(d, i) ==
    IF Truthy(i) THEN DictGet(i, "fiftyTwoWeekHigh", NoneVal)
    ELSE <<Max(Range(Column(d.bars, "High")))>>

\* line 152
low_52w(d, i) ==
    IF Truthy(i) THEN DictGet(i, "fiftyTwoWeekLow", NoneVal)
    ELSE <<Min(Range(Column(d.bars, "Low")))>>

\* lines 155-156 raise TypeError when a bound is None: None == None is true and
\* None += 0.01 raises; a number == None is false and the subtraction raises
BoundsRaise(d, i) == high_52w_raw(d, i) = NoneVal \/ low_52w(d, i) = NoneVal

\* faulty variant: equal bounds are left as they are
high_52w_NoNudge(d, i) == high_52w_raw(d, i)

\* line 155, for numeric bounds
high_52w(d, i) ==
    IF high_52w_raw(d, i) = low_52w(d, i)
    THEN <<high_52w_raw(d, i)[1] + Epsilon>>
    ELSE high_52w_raw(d, i)

\* faulty variant: the percentile is clamped to [0, 100]
price_percentile_Clamped(cp, lo, hi) ==
    IF FloatLt(Frac((cp - lo) * 100, hi - lo), <<0, 1>>) THEN <<0, 1>>
    ELSE IF FloatGt(Frac((cp - lo) * 100, hi - lo), <<100, 1>>) THEN <<100, 1>>
    ELSE Frac((cp - lo) * 100, hi - lo)

\* line 156
price_percentile(cp, lo, hi) == Frac((cp - lo) * 100, hi - lo)

\* faulty variant: a missing ratio counts as 0, as it does for a chain without calls
pcr_of_ZeroDefault(o) == IF Truthy(o) THEN DictGet(o, "pcr", <<0, 1>>) ELSE <<0, 1>>

\* line 159
pcr_of(o) == IF Truthy(o) THEN DictGet(o, "pcr", DefaultPcr) ELSE DefaultPcr

\* line 160
rsi_of(d) ==
    IF "RSI" \in d.columns THEN d.RSI[Len(d.bars)] ELSE <<DefaultRsi, 1>>

\* line 161
volume_surge(d) ==
    FloatGt(<<d.bars[Len(d.bars)].Volume, 1>>,
            FloatMul(RollingMeanLast(Column(d.bars, "Volume"), VolumeWindow),
                     SurgeFactor))

\* faulty variant: the bullish bucket takes the ratio 0.6 itself
Emotion_Inclusive(p) ==
    IF FloatLe(p, PcrBullish) THEN [narrative |-> "bullish", ratio |-> Fmt2(p)]
    ELSE IF FloatGt(p, PcrBearish) THEN [narrative |-> "bearish", ratio |-> Fmt2(p)]
    ELSE [narrative |-> "neutral", ratio |-> Fmt2(p)]

\* lines 172-177
Emotion(p) ==
    IF FloatLt(p, PcrBullish) THEN [narrative |-> "bullish", ratio |-> Fmt2(p)]
    ELSE IF FloatGt(p, PcrBearish) THEN [narrative |-> "bearish", ratio |-> Fmt2(p)]
    ELSE [narrative |-> "neutral", ratio |-> Fmt2(p)]

Directive(k, a) == [kind |-> k, args |-> a]

\* faulty variant: the oversold branch needs both conditions
DeepValueActions_And(p, r, sup, res) ==
    <<Directive("no_panic_selling", <<>>),
      Directive("distrust_trend_indicators", <<>>)>>
    \o (IF FloatLt(p, PcrOversold) /\ FloatLt(r, <<RsiOversold, 1>>)
        THEN <<Directive("oversold_bounce", <<>>),
               Directive("grid_range_trade",
                         <<Fmt2(Price(res)), Fmt2(Price(sup))>>)>>
        ELSE <<Directive("patient_small_probe", <<>>)>>)

\* lines 184-191
DeepValueActions(p, r, sup, res) ==
    <<Directive("no_panic_selling", <<>>),
      Directive("distrust_trend_indicators", <<>>)>>
    \o (IF FloatLt(p, PcrOversold) \/ FloatLt(r, <<RsiOversold, 1>>)
        THEN <<Directive("oversold_bounce", <<>>),
               Directive("grid_range_trade",
                         <<Fmt2(Price(res)), Fmt2(Price(sup))>>)>>
        ELSE <<Directive("patient_small_probe", <<>>)>>)

\* faulty variant: the price must exceed 95% of the resistance
RangeBoundActions_Strict(cp, sup, res, surge) ==
    <<Directive("band", <<Fmt2(Price(sup)), Fmt2(Price(res))>>),
      Directive("buy_floor_sell_ceiling", <<>>)>>
    \o (IF FloatGt(<<cp, 1>>, FloatMul(<<res, 1>>, NearResistance))
        THEN IF surge
             THEN <<Directive("breakout", <<>>)>>
             ELSE <<Directive("volume_insufficient", <<>>)>>
        ELSE <<>>)

\* lines 197-204
RangeBoundActions(cp, sup, res, surge) ==
    <<Directive("band", <<Fmt2(Price(sup)), Fmt2(Price(res))>>),
      Directive("buy_floor_sell_ceiling", <<>>)>>
    \o (IF FloatGe(<<cp, 1>>, FloatMul(<<res, 1>>, NearResistance))
        THEN IF surge
             THEN <<Directive("breakout", <<>>)>>
             ELSE <<Directive("volume_insufficient", <<>>)>>
        ELSE <<>>)

\* faulty variant: either condition alone raises the top-risk warning
HighTrendActions_Or(p, r) ==
    <<Directive("hold_ma_discipline", <<>>)>>
    \o (IF FloatGt(r, <<RsiOverbought, 1>>) \/ FloatLt(p, PcrBullish)
        THEN <<Directive("top_risk_take_profit", <<>>)>>
        ELSE <<Directive("ride_the_trend", <<>>)>>)

\* lines 210-214
HighTrendActions(p, r) ==
    <<Directive("hold_ma_discipline", <<>>)>>
    \o (IF FloatGt(r, <<RsiOverbought, 1>>) /\ FloatLt(p, PcrBullish)
        THEN <<Directive("top_risk_take_profit", <<>>)>>
        ELSE <<Directive("ride_the_trend", <<>>)>>)

\* faulty variant: the percentile 25 itself is not Deep-Value
StateBranch_StrictDeep(pct, p, r, cp, sup, res, surge) ==
    IF FloatLt(pct, <<DeepValueMax, 1>>)
    THEN [state_title |-> "DeepValueZone", state_desc |-> "DeepValueDesc",
          actions |-> DeepValueActions(p, r, sup, res)]
    ELSE IF FloatLt(<<DeepValueMax, 1>>, pct) /\ FloatLe(pct, <<RangeBoundMax, 1>>)
    THEN [state_title |-> "RangeBoundZone", state_desc |-> "RangeBoundDesc",
          actions |-> RangeBoundActions(cp, sup, res, surge)]
    ELSE [state_title |-> "HighTrendZone", state_desc |-> "HighTrendDesc",
          actions |-> HighTrendActions(p, r)]

\* lines 180-214: the if / elif / else over the percentile
StateBranch(pct, p, r, cp, sup, res, surge) ==
    IF FloatLe(pct, <<DeepValueMax, 1>>)
    THEN [state_title |-> "DeepValueZone", state_desc |-> "DeepValueDesc",
          actions |-> DeepValueActions(p, r, sup, res)]
    ELSE IF FloatLt(<<DeepValueMax, 1>>, pct) /\ FloatLe(pct, <<RangeBoundMax, 1>>)
    THEN [state_title |-> "RangeBoundZone", state_desc |-> "RangeBoundDesc",
          actions |-> RangeBoundActions(cp, sup, res, surge)]
    ELSE [state_title |-> "HighTrendZone", state_desc |-> "HighTrendDesc",
          actions |-> HighTrendActions(p, r)]

Pending == [outcome |-> "pending", value |-> <<>>]

\* the state of a backtest that has not started: the signals frame, the row
\* the loop is at, the locals of calculate_strategy_performance, the executed
\* trades in order (kept for the properties) and the value returned
NoSignals == [none |-> TRUE, Signal |-> <<>>, Position |-> <<>>]
NoBacktest ==
    [signals |-> NoSignals, i |-> 0, balance |-> <<0, 1>>, position |-> <<0, 1>>,
     trades |-> 0, log |-> <<>>, result |-> Pending]

Raised == [outcome |-> "raise", value |-> <<>>]
ReturnNone == [outcome |-> "return", value |-> <<>>]
Return(v) == [outcome |-> "return", value |-> <<v>>]

\* lines 164-216
tactical_data(d, o, i) ==
    LET pct == price_percentile(current_price(d), low_52w(d, i)[1],
                                high_52w(d, i)[1])
        b == StateBranch(pct, pcr_of(o), rsi_of(d), current_price(d),
                         support_level(d), resistance_level(d), volume_surge(d))
    IN  [support |-> support_level(d),
         resistance |-> resistance_level(d),
         percentile |-> pct,
         emotion |-> Emotion(pcr_of(o)),
         state_title |-> b.state_title,
         state_desc |-> b.state_desc,
         actions |-> b.actions]

\* faulty variant: only a missing frame is tested, and reading the last close of
\* an empty frame raises
generate_tactical_panel_NoneOnly(d, o, i) ==
    IF d.none THEN ReturnNone
    ELSE IF Empty(d) \/ BoundsRaise(d, i) THEN Raised
    ELSE Return(tactical_data(d, o, i))

\* lines 140-216
generate_tactical_panel(d, o, i) ==
    IF d.none \/ Empty(d) THEN ReturnNone
    ELSE IF BoundsRaise(d, i) THEN Raised
    ELSE Return(tactical_data(d, o, i))

----------------------------------------------------------------------------
(* Inputs of a direct call of generate_tactical_panel *)

MaxHead == 1
MaxTail == 2

Bar(l, h, c, v) == [Low |-> l, High |-> h, Close |-> c, Volume |-> v]

\* an old bar with the widest range, a quiet bar that pads the history, and
\* the bars the series ends with
HeadBar == Bar(50, 500, 200, 10)
PadBar == Bar(100, 400, 200, 10)
TailBars == { Bar(100, 400, 200, 10),
              Bar(300, 400, 380, 40),
              Bar(200, 200, 200, 10) }
PadLens == {0, 7, 18}

SeqsUpTo(S, n) == UNION { [1..m -> S] : m \in 0..n }

PriceSeries ==
    { h \o [j \in 1..k |-> PadBar] \o t :
        h \in SeqsUpTo({HeadBar}, MaxHead),
        k \in PadLens,
        t \in SeqsUpTo(TailBars, MaxTail) \ {<<>>} }

NoFrame == [none |-> TRUE, bars |-> <<>>, columns |-> {}, RSI |-> <<>>]
Frame(bars, cols, rsicol) ==
    [none |-> FALSE, bars |-> bars, columns |-> cols, RSI |-> rsicol]

\* an RSI column whose last value is given
RsiColumn(bars, last) ==
    [j \in 1..Len(bars) |-> IF j = Len(bars) THEN last ELSE NaN]

RsiLast == { NaN, <<34, 1>>, <<35, 1>>, <<70, 1>>, <<71, 1>> }

InputFrames ==
    {NoFrame, Frame(<<>>, {}, <<>>)}
    \cup { Frame(b, {}, <<>>) : b \in PriceSeries }
    \cup { Frame(b, {"RSI"}, RsiColumn(b, x)) : b \in PriceSeries, x \in RsiLast }

NoDict == [none |-> TRUE, items |-> {}]
Dict(items) == [none |-> FALSE, items |-> items]

InputOptions ==
    {NoDict, Dict({<<"expiration_date", <<1, 1>>>>})}
    \cup { Dict({<<"pcr", x>>}) :
             x \in { <<59, 100>>, <<6, 10>>, <<7, 10>>, <<12, 10>>, <<121, 100>> } }

InputInfos ==
    {NoDict, Dict({}), Dict({<<"symbol", <<1>>>>}),
     Dict({<<"fiftyTwoWeekHigh", <<500>>>>}),
     Dict({<<"fiftyTwoWeekLow", <<100>>>>, <<"fiftyTwoWeekHigh", NoneVal>>})}
    \cup { Dict({<<"fiftyTwoWeekLow", <<b[1]>>>>, <<"fiftyTwoWeekHigh", <<b[2]>>>>}) :
             b \in { <<100, 500>>, <<250, 300>>, <<200, 200>> } }

----------------------------------------------------------------------------
(* Specification of a direct call *)

Init ==
    /\ pc = "call"
    /\ ticker = "U"
    /\ df \in InputFrames
    /\ info \in InputInfos
    /\ options_data \in InputOptions
    /\ tactical_panel = Pending
    /\ calls = <<>>
    /\ ui = <<>>
    /\ backtest = NoBacktest

Call ==
    /\ pc = "call"
    /\ tactical_panel' = generate_tactical_panel(df, options_data, info)
    /\ calls' = Append(calls, "generate_tactical_panel")
    /\ pc' = "done"
    /\ UNCHANGED <<backtest, ticker, df, info, options_data, ui>>

\* app.py lines 88-115: what the caller shows for the value the generator
\* returned: the two panel regions, or the warning when there is no panel
RenderedUi(u, result) ==
    IF result.value # <<>>
    THEN u \o <<"state_region", "action_region">>
    ELSE Append(u, "insufficient_data")

\* the caller's rendering of the result of the direct call
RenderResult ==
    /\ pc = "done"
    /\ tactical_panel.outcome = "return"
    /\ ui' = RenderedUi(ui, tactical_panel)
    /\ pc' = "rendered"
    /\ UNCHANGED <<backtest, ticker, df, info, options_data, tactical_panel, calls>>

Next ==
    \/ Call
    \/ RenderResult

Spec == Init /\ [][Next]_vars

----------------------------------------------------------------------------
(* The data functions the page calls, src/utils.py *)

\* lines 26-32: df['RSI'] at row j (1-based).  The first delta is NaN and
\* counts as neither gain nor loss; rolling(14) is NaN on the first 13 rows;
\* avg_gain / avg_loss is inf when only the loss is 0 (RSI 100) and NaN when
\* both are 0.
Gain(bars, j) ==
    IF j >= 2 /\ bars[j].Close > bars[j - 1].Close
    THEN bars[j].Close - bars[j - 1].Close ELSE 0

Loss(bars, j) ==
    IF j >= 2 /\ bars[j].Close < bars[j - 1].Close
    THEN bars[j - 1].Close - bars[j].Close ELSE 0

RsiAt(bars, j) ==
    IF j < RsiWindow THEN NaN
    ELSE LET g == Sum([k \in 1..RsiWindow |-> Gain(bars, j - RsiWindow + k)])
             l == Sum([k \in 1..RsiWindow |-> Loss(bars, j - RsiWindow + k)])
         IN  IF l = 0 THEN (IF g = 0 THEN NaN ELSE <<100, 1>>)
             ELSE <<100 * g, g + l>>

\* lines 19-39, restricted to the column the panel reads (the moving
\* averages, MACD and Bollinger columns are not read by the modelled code)
calculate_indicators(d) ==
    IF d.none \/ Empty(d) THEN d
    ELSE [d EXCEPT !.columns = d.columns \cup {"RSI"},
                   !.RSI = [j \in 1..Len(d.bars) |-> RsiAt(d.bars, j)]]

\* lines 7-17: what the provider answers, and what get_stock_data returns
FetchOutcomes ==
    {[kind |-> "exception", df |-> NoFrame, info |-> NoDict],
     [kind |-> "empty", df |-> Frame(<<>>, {}, <<>>), info |-> NoDict]}
    \cup { [kind |-> "ok", df |-> Frame(b, {}, <<>>), info |-> i] :
             b \in PriceSeries, i \in InputInfos \ {NoDict} }

get_stock_data(f) ==
    IF f.kind = "exception" \/ Empty(f.df)
    THEN [df |-> NoFrame, info |-> NoDict]
    ELSE [df |-> f.df, info |-> f.info]

\* lines 116-132: the option chain of the nearest expiration
ChainOutcomes ==
    {[kind |-> "exception", call_vol |-> 0, put_vol |-> 0],
     [kind |-> "no_expirations", call_vol |-> 0, put_vol |-> 0]}
    \cup { [kind |-> "ok", call_vol |-> c, put_vol |-> p] :
             c \in {0, 10}, p \in {0, 5, 13} }

get_options_data(ch) ==
    IF ch.kind # "ok" THEN NoDict
    ELSE Dict({<<"expiration_date", <<1, 1>>>>,
               <<"pcr", IF ch.call_vol > 0 THEN <<ch.put_vol, ch.call_vol>>
                        ELSE <<0, 1>>>>,
               <<"total_call_vol", <<ch.call_vol, 1>>>>,
               <<"total_put_vol", <<ch.put_vol, 1>>>>})

----------------------------------------------------------------------------
(* The page script, src/app.py lines 73-115 and 256-257 *)

AppInit ==
    /\ pc = "start"
    /\ ticker \in {"", "U"}
    /\ df = NoFrame
    /\ info = NoDict
    /\ options_data = NoDict
    /\ tactical_panel = Pending
    /\ calls = <<>>
    /\ ui = <<>>
    /\ backtest = NoBacktest

\* line 73, empty ticker: nothing is fetched or rendered
NoTicker ==
    /\ pc = "start"
    /\ ticker = ""
    /\ pc' = "done"
    /\ UNCHANGED <<backtest, ticker, df, info, options_data, tactical_panel, calls, ui>>

\* lines 73-75
FetchData ==
    /\ pc = "start"
    /\ ticker # ""
    /\ \E f \in FetchOutcomes :
         /\ df' = get_stock_data(f).df
         /\ info' = get_stock_data(f).info
    /\ calls' = Append(calls, "get_stock_data")
    /\ pc' = "fetched"
    /\ UNCHANGED <<backtest, ticker, options_data, tactical_panel, ui>>

\* line 77
Loaded == ~df.none /\ ~Empty(df)

\* lines 256-257
LoadFailed ==
    /\ pc = "fetched"
    /\ ~Loaded
    /\ ui' = Append(ui, "load_failed")
    /\ pc' = "done"
    /\ UNCHANGED <<backtest, ticker, df, info, options_data, tactical_panel, calls>>

\* faulty variant: the page goes on without testing what the fetch returned
CalculateIndicators_Unguarded ==
    /\ pc = "fetched"
    /\ df' = calculate_indicators(df)
    /\ options_data' = NoDict
    /\ calls' = Append(calls, "calculate_indicators")
    /\ pc' = "options"
    /\ UNCHANGED <<backtest, ticker, info, tactical_panel, ui>>

\* lines 77-79
CalculateIndicators ==
    /\ pc = "fetched"
    /\ Loaded
    /\ df' = calculate_indicators(df)
    /\ options_data' = NoDict
    /\ calls' = Append(calls, "calculate_indicators")
    /\ pc' = "options"
    /\ UNCHANGED <<backtest, ticker, info, tactical_panel, ui>>

\* lines 81-82
GetOptionsData ==
    /\ pc = "options"
    /\ \E ch \in ChainOutcomes : options_data' = get_options_data(ch)
    /\ calls' = Append(calls, "get_options_data")
    /\ pc' = "panel"
    /\ UNCHANGED <<backtest, ticker, df, info, tactical_panel, ui>>

\* lines 85-86; an exception raised by the generator ends the script run
GeneratePanel ==
    /\ pc = "panel"
    /\ tactical_panel' = generate_tactical_panel(df, options_data, info)
    /\ calls' = Append(calls, "generate_tactical_panel")
    /\ ui' = Append(ui, "panel_header")
    /\ pc' = IF tactical_panel'.outcome = "raise" THEN "crashed" ELSE "render"
    /\ UNCHANGED <<backtest, ticker, df, info, options_data>>

\* lines 88-115: the two panel regions, or the warning when there is no panel
RenderPanel ==
    /\ pc = "render"
    /\ ui' = RenderedUi(ui, tactical_panel)
    /\ pc' = "done"
    /\ UNCHANGED <<backtest, ticker, df, info, options_data, tactical_panel, calls>>

AppNext ==
    \/ NoTicker
    \/ FetchData
    \/ LoadFailed
    \/ CalculateIndicators
    \/ GetOptionsData
    \/ GeneratePanel
    \/ RenderPanel

AppSpec == AppInit /\ [][AppNext]_vars

----------------------------------------------------------------------------
(* The strategy signals and the backtest: run_strategy with the 'rsi'      *)
(* strategy and calculate_strategy_performance, one step per row of the    *)
(* loop.  Cash and shares are exact fractions kept in lowest terms.        *)

StrategyBuyRsi == 30
StrategySellRsi == 70
InitialCapital == 10000

\* the longest series that is backtested
MaxBars == 4

RECURSIVE Gcd(_, _)
Gcd(a, b) == IF b = 0 THEN a ELSE Gcd(b, a % b)

\* the same number in lowest terms
Reduce(x) ==
    IF ~IsNum(x) THEN x
    ELSE LET g == Gcd(IF x[1] < 0 THEN -x[1] ELSE x[1], x[2])
         IN  <<x[1] \div g, x[2] \div g>>

FloatAdd(a, b) ==
    IF IsNum(a) /\ IsNum(b)
    THEN Reduce(<<a[1] * b[2] + b[1] * a[2], a[2] * b[2]>>)
    ELSE NaN

\* a / b for b # 0
FloatDiv(a, b) ==
    IF IsNum(a) /\ IsNum(b)
    THEN Reduce(Frac(a[1] * b[2], a[2] * b[1]))
    ELSE NaN

\* utils.py lines 65-70: the signal after the first j values of the RSI
\* column; a value that is neither below 30 nor above 70 (an undefined one
\* included) keeps the signal of the row before
RECURSIVE current_signal(_, _)
current_signal(rsi, j) ==
    IF j = 0 THEN 0
    ELSE IF FloatLt(rsi[j], <<StrategyBuyRsi, 1>>) THEN 1
    ELSE IF FloatGt(rsi[j], <<StrategySellRsi, 1>>) THEN 0
    ELSE current_signal(rsi, j - 1)

\* Series.diff(): undefined on the first row, then the change from the row
\* before
diff(s) ==
    [j \in 1..Len(s) |-> IF j = 1 THEN NaN ELSE <<s[j] - s[j - 1], 1>>]

\* run_strategy(df, 'rsi')
run_strategy(d) ==
    IF d.none THEN NoSignals
    ELSE LET signal_list == [j \in 1..Len(d.bars) |-> current_signal(d.RSI, j)]
         IN  [none |-> FALSE, Signal |-> signal_list, Position |-> diff(signal_list)]

\* lines 100-111, faulty variant: a buy that does not look at the cash
ProcessRow_NoCashGuard(b, price, action) ==
    IF FloatEq(action, <<1, 1>>)
    THEN [b EXCEPT !.position = FloatDiv(b.balance, price),
                   !.balance = <<0, 1>>,
                   !.trades = b.trades + 1]
    ELSE IF FloatEq(action, <<-1, 1>>)
    THEN IF FloatGt(b.position, <<0, 1>>)
         THEN [b EXCEPT !.balance = Reduce(FloatMul(b.position, price)),
                        !.position = <<0, 1>>,
                        !.trades = b.trades + 1]
         ELSE b
    ELSE b

\* lines 100-111: the body of the loop for one row
ProcessRow(b, price, action) ==
    IF FloatEq(action, <<1, 1>>)
    THEN IF FloatGt(b.balance, <<0, 1>>)
         THEN [b EXCEPT !.position = FloatDiv(b.balance, price),
                        !.balance = <<0, 1>>,
                        !.trades = b.trades + 1]
         ELSE b
    ELSE IF FloatEq(action, <<-1, 1>>)
    THEN IF FloatGt(b.position, <<0, 1>>)
         THEN [b EXCEPT !.balance = Reduce(FloatMul(b.position, price)),
                        !.position = <<0, 1>>,
                        !.trades = b.trades + 1]
         ELSE b
    ELSE b

\* lines 112-114: the returned figures, the return in percent
Performance(b, last_close) ==
    LET final_value == FloatAdd(b.balance, Reduce(FloatMul(b.position, last_close)))
        gain == FloatAdd(final_value, <<-InitialCapital, 1>>)
    IN  [total_return |-> Reduce(<<gain[1] * 100, gain[2] * InitialCapital>>),
         final_value |-> final_value,
         trades |-> b.trades]

\* backtested series: closes from two prices, with an RSI column of values
\* on both sides of the thresholds or without one
BacktestCloses == {2000, 5000}
BacktestRsi == {NaN, <<20, 1>>, <<50, 1>>, <<80, 1>>}
BacktestActions == {NaN, <<-1, 1>>, <<0, 1>>, <<1, 1>>}
BacktestBars == { [j \in 1..Len(c) |-> Bar(c[j], c[j], c[j], 10)] : c \in SeqsUpTo(BacktestCloses, MaxBars) }
BacktestFrames ==
    {NoFrame}
    \cup { Frame(b, {}, <<>>) : b \in BacktestBars \ {<<>>} }
    \cup UNION { { Frame(b, {"RSI"}, r) : r \in [1..Len(b) -> BacktestRsi] } : b \in BacktestBars }

BacktestInit ==
    /\ pc = "strategy"
    /\ ticker = "U"
    /\ df \in BacktestFrames
    /\ info = NoDict
    /\ options_data = NoDict
    /\ tactical_panel = Pending
    /\ calls = <<>>
    /\ ui = <<>>
    /\ backtest = NoBacktest

\* app.py line 200: the signals of the 'rsi' strategy
RunStrategy ==
    /\ pc = "strategy"
    /\ df.none \/ "RSI" \in df.columns
    /\ backtest' = [backtest EXCEPT !.signals = run_strategy(df)]
    /\ calls' = Append(calls, "run_strategy")
    /\ pc' = "perform"
    /\ UNCHANGED <<ticker, df, info, options_data, tactical_panel, ui>>

\* a direct call of calculate_strategy_performance with a signals frame of
\* the caller's making
GivenSignals ==
    /\ pc = "strategy"
    /\ ~df.none /\ "RSI" \notin df.columns
    /\ \E p \in [1..Len(df.bars) -> BacktestActions] :
          backtest' = [backtest EXCEPT
                          !.signals = [none |-> FALSE,
                                       Signal |-> [j \in 1..Len(df.bars) |-> 0],
                                       Position |-> p]]
    /\ pc' = "perform"
    /\ UNCHANGED <<ticker, df, info, options_data, tactical_panel, calls, ui>>

\* lines 93-98: nothing to backtest, or the locals before the loop
StartPerformance ==
    /\ pc = "perform"
    /\ calls' = Append(calls, "calculate_strategy_performance")
    /\ IF backtest.signals.none \/ df.none
       THEN /\ backtest' = [backtest EXCEPT !.result = ReturnNone]
            /\ pc' = "bt_done"
       ELSE /\ backtest' = [backtest EXCEPT !.balance = <<InitialCapital, 1>>,
                                            !.position = <<0, 1>>,
                                            !.trades = 0,
                                            !.i = 0]
            /\ pc' = "loop"
    /\ UNCHANGED <<ticker, df, info, options_data, tactical_panel, ui>>

\* lines 99-111: one row of the loop; the log gains an entry when the row
\* raised the trade count
StepBar ==
    /\ pc = "loop"
    /\ backtest.i < Len(df.bars)
    /\ LET row == backtest.i + 1
           action == backtest.signals.Position[row]
           after == ProcessRow(backtest, Price(df.bars[row].Close), action)
       IN  backtest' = [after EXCEPT
               !.i = row,
               !.log = IF after.trades # backtest.trades
                       THEN Append(backtest.log,
                                   [row |-> row,
                                    kind |-> IF FloatEq(action, <<1, 1>>) THEN "buy" ELSE "sell"])
                       ELSE backtest.log]
    /\ UNCHANGED <<pc, ticker, df, info, options_data, tactical_panel, calls, ui>>

\* lines 112-114: the figures after the last row; iloc[-1] of an empty
\* series raises
FinishPerformance ==
    /\ pc = "loop"
    /\ backtest.i = Len(df.bars)
    /\ backtest' = [backtest EXCEPT !.result =
           IF df.bars = <<>> THEN Raised
           ELSE Return(Performance(backtest, Price(df.bars[Len(df.bars)].Close)))]
    /\ pc' = "bt_done"
    /\ UNCHANGED <<ticker, df, info, options_data, tactical_panel, calls, ui>>

BacktestNext ==
    \/ RunStrategy
    \/ GivenSignals
    \/ StartPerformance
    \/ StepBar
    \/ FinishPerformance

BacktestSpec == BacktestInit /\ [][BacktestNext]_vars

----------------------------------------------------------------------------
(* Properties.  The formulas restate the regime rules from the inputs held  *)
(* in the state, with their own arithmetic, and compare them with the panel *)
(* the call returned.                                                       *)

Returned == tactical_panel.outcome = "return" /\ tactical_panel.value # <<>>
Panel == tactical_panel.value[1]

Less(a, b) == a[1] * b[2] < b[1] * a[2]

\* the put/call ratio and the RSI handed to the generator, with the defaults
\* 1.0 and 50 for a missing value
GivenRatio ==
    IF \E q \in options_data.items : q[1] = "pcr"
    THEN (CHOOSE q \in options_data.items : q[1] = "pcr")[2]
    ELSE <<1, 1>>

GivenRsi ==
    IF "RSI" \in df.columns /\ df.RSI[Len(df.bars)] # NaN
    THEN df.RSI[Len(df.bars)]
    ELSE <<50, 1>>

ExpectedTitle(pct) ==
    IF pct[1] <= 25 * pct[2] THEN "DeepValueZone"
    ELSE IF pct[1] <= 75 * pct[2] THEN "RangeBoundZone"
    ELSE "HighTrendZone"

TitleDesc(t) ==
    CASE t = "DeepValueZone" -> "DeepValueDesc"
      [] t = "RangeBoundZone" -> "RangeBoundDesc"
      [] t = "HighTrendZone" -> "HighTrendDesc"

TitleKinds(t) ==
    CASE t = "DeepValueZone" ->
           {"no_panic_selling", "distrust_trend_indicators", "oversold_bounce",
            "grid_range_trade", "patient_small_probe"}
      [] t = "RangeBoundZone" ->
           {"band", "buy_floor_sell_ceiling", "breakout", "volume_insufficient"}
      [] t = "HighTrendZone" ->
           {"hold_ma_discipline", "top_risk_take_profit", "ride_the_trend"}

Kinds(acts) == [j \in 1..Len(acts) |-> acts[j].kind]

\* the classification of sample percentiles, the thresholds and the values
\* outside [0, 100] among them
PercentileSamplesClassified ==
    \A x \in {<<-5, 1>>, <<0, 1>>, <<25, 1>>, <<2501, 100>>, <<75, 1>>, <<7501, 100>>,
              <<100, 1>>, <<105, 1>>} :
        LET b == StateBranch(x, <<1, 1>>, <<50, 1>>, 200, 100, 400, FALSE)
        IN  /\ b.state_title = ExpectedTitle(x)
            /\ b.state_desc = TitleDesc(b.state_title)
            /\ \A j \in 1..Len(b.actions) : b.actions[j].kind \in TitleKinds(b.state_title)

\* C1: every percentile is classified into exactly one regime, Deep-Value up to
\* and including 25, Range-Bound above 25 up to and including 75, High-Trend
\* above 75 (also below 0 and above 100), and the title, the description and
\* every directive of the panel belong to that one regime.
C1_OneRegimePerPercentile ==
    /\ Returned =>
          LET t == ExpectedTitle(Panel.percentile)
          IN  /\ Panel.state_title = t
              /\ Panel.state_desc = TitleDesc(t)
              /\ Panel.actions # <<>>
              /\ \A j \in 1..Len(Panel.actions) : Panel.actions[j].kind \in TitleKinds(t)
    /\ PercentileSamplesClassified

C1_Witness ==
    /\ Returned
    /\ Panel.percentile[1] = 25 * Panel.percentile[2]
    /\ Panel.state_title = "DeepValueZone"

\* percentile 20 with ratio 1.0: rsi 40, then rsi 30
DeepValueExamples ==
    /\ Kinds(StateBranch(<<20, 1>>, <<1, 1>>, <<40, 1>>, 200, 100, 400, FALSE).actions)
         = <<"no_panic_selling", "distrust_trend_indicators", "patient_small_probe">>
    /\ Kinds(StateBranch(<<20, 1>>, <<1, 1>>, <<30, 1>>, 200, 100, 400, FALSE).actions)
         = <<"no_panic_selling", "distrust_trend_indicators", "oversold_bounce",
             "grid_range_trade">>

\* C2: in the Deep-Value state the directives are no-panic-selling, distrust-
\* trend-indicators, and then the oversold-bounce alert with the range-trading
\* directive carrying the band when ratio < 0.7 or rsi < 35, else the single
\* patient-small-probe directive; percentile 20, rsi 40, ratio 1.0 takes the
\* patient branch and percentile 20, rsi 30, ratio 1.0 the oversold branch.
C2_DeepValueScript ==
    /\ (Returned /\ Panel.state_title = "DeepValueZone") =>
          Panel.actions =
              <<[kind |-> "no_panic_selling", args |-> <<>>],
                [kind |-> "distrust_trend_indicators", args |-> <<>>]>>
              \o (IF Less(GivenRatio, <<7, 10>>) \/ Less(GivenRsi, <<35, 1>>)
                  THEN <<[kind |-> "oversold_bounce", args |-> <<>>],
                         [kind |-> "grid_range_trade",
                          args |-> <<Fmt2(Price(Panel.resistance)),
                                     Fmt2(Price(Panel.support))>>]>>
                  ELSE <<[kind |-> "patient_small_probe", args |-> <<>>]>>)
    /\ DeepValueExamples

C2_Witness ==
    /\ Returned
    /\ Panel.state_title = "DeepValueZone"
    /\ ~Less(GivenRatio, <<7, 10>>)
    /\ Less(GivenRsi, <<35, 1>>)
    /\ Len(Panel.actions) = 4

\* C3: in the Range-Bound state the directives are the band directive and the
\* buy-floor/sell-ceiling directive, followed by a third one exactly when
\* current_price >= 0.95 * resistance: breakout when the volume surges,
\* volume-insufficient when it does not.
C3_RangeBoundScript ==
    (Returned /\ Panel.state_title = "RangeBoundZone") =>
        Panel.actions =
            <<[kind |-> "band",
               args |-> <<Fmt2(Price(Panel.support)), Fmt2(Price(Panel.resistance))>>],
              [kind |-> "buy_floor_sell_ceiling", args |-> <<>>]>>
            \o (IF 100 * df.bars[Len(df.bars)].Close >= 95 * Panel.resistance
                THEN IF volume_surge(df)
                     THEN <<[kind |-> "breakout", args |-> <<>>]>>
                     ELSE <<[kind |-> "volume_insufficient", args |-> <<>>]>>
                ELSE <<>>)

C3_Witness ==
    /\ Returned
    /\ Panel.state_title = "RangeBoundZone"
    /\ 100 * df.bars[Len(df.bars)].Close = 95 * Panel.resistance
    /\ Kinds(Panel.actions) = <<"band", "buy_floor_sell_ceiling", "breakout">>

\* percentile 80, rsi 75, ratio 0.5
HighTrendExample ==
    Kinds(StateBranch(<<80, 1>>, <<5, 10>>, <<75, 1>>, 400, 100, 400, FALSE).actions)
        = <<"hold_ma_discipline", "top_risk_take_profit">>

\* C4: in the High-Trend state there are exactly two directives: hold-by-
\* moving-average first, then top-risk when rsi > 70 and ratio < 0.6 both
\* hold, and ride-the-trend in every other case.
C4_HighTrendScript ==
    /\ (Returned /\ Panel.state_title = "HighTrendZone") =>
          Kinds(Panel.actions) =
              <<"hold_ma_discipline",
                IF Less(<<70, 1>>, GivenRsi) /\ Less(GivenRatio, <<6, 10>>)
                THEN "top_risk_take_profit" ELSE "ride_the_trend">>
    /\ HighTrendExample

C4_Witness ==
    /\ Returned
    /\ Panel.state_title = "HighTrendZone"
    /\ Less(<<70, 1>>, GivenRsi)
    /\ ~Less(GivenRatio, <<6, 10>>)
    /\ Kinds(Panel.actions) = <<"hold_ma_discipline", "ride_the_trend">>

\* one series per regime, classified by the series' own high and low
RegimeSamples ==
    { Frame(<<Bar(200, 200, 200, 10)>>, {}, <<>>),
      Frame(<<Bar(100, 400, 200, 10)>>, {}, <<>>),
      Frame(<<Bar(300, 400, 380, 40)>>, {"RSI"}, <<<<71, 1>>>>) }

\* C5: the emotion narrative is bullish for ratio < 0.6, bearish for ratio >
\* 1.2 and neutral otherwise (0.6 and 1.2 included), and it is the emotion of
\* every other call with the same options data, whatever its regime, rsi or
\* volume.
C5_EmotionFromRatioOnly ==
    Returned =>
        /\ Panel.emotion.narrative =
              (IF Less(GivenRatio, <<6, 10>>) THEN "bullish"
               ELSE IF Less(<<12, 10>>, GivenRatio) THEN "bearish"
               ELSE "neutral")
        /\ \A d \in RegimeSamples :
              generate_tactical_panel(d, options_data, NoDict).value[1].emotion
                  = Panel.emotion
        /\ { generate_tactical_panel(d, options_data, NoDict).value[1].state_title :
                d \in RegimeSamples }
              = {"DeepValueZone", "RangeBoundZone", "HighTrendZone"}

C5_Witness ==
    /\ Returned
    /\ GivenRatio = <<6, 10>>
    /\ Panel.emotion.narrative = "neutral"
    /\ Panel.state_title = "HighTrendZone"

\* the 52-week bound the claims describe: the metadata value when it is there
\* and numeric, else the extreme of the whole series
MetaOr(key, fallback) ==
    IF \E q \in info.items : q[1] = key /\ q[2] # NoneVal
    THEN (CHOOSE q \in info.items : q[1] = key /\ q[2] # NoneVal)[2][1]
    ELSE fallback

SeriesHigh == CHOOSE m \in {df.bars[j].High : j \in 1..Len(df.bars)} :
                  \A j \in 1..Len(df.bars) : df.bars[j].High <= m
SeriesLow == CHOOSE m \in {df.bars[j].Low : j \in 1..Len(df.bars)} :
                  \A j \in 1..Len(df.bars) : m <= df.bars[j].Low

LastClose == df.bars[Len(df.bars)].Close

\* C6: for every non-empty price series and every metadata value (absent,
\* empty, with both 52-week fields, or with either one missing or None) the
\* call returns a panel, whose percentile uses the metadata value of a bound
\* when it is present and numeric and the series extreme otherwise.
C6_PanelForEveryMetadata ==
    (pc = "done" /\ ~df.none /\ df.bars # <<>>) =>
        /\ Returned
        /\ LET lo == MetaOr("fiftyTwoWeekLow", SeriesLow)
               hi0 == MetaOr("fiftyTwoWeekHigh", SeriesHigh)
               hi == IF hi0 = lo THEN hi0 + 10 ELSE hi0
           IN  Panel.percentile[1] * (hi - lo)
                   = (LastClose - lo) * 100 * Panel.percentile[2]

ExampleBars ==
    [j \in 1..8 |-> Bar((11 - j) * 1000, (10 + j) * 1000, (11 - j) * 1000, 10)]

ExampleBand ==
    LET q == generate_tactical_panel(Frame(ExampleBars, {}, <<>>), NoDict, NoDict).value[1]
    IN  <<q.support, q.resistance>>

\* C7: support is the minimum low and resistance the maximum high over exactly
\* the last min(8, n) bars of the series, a series shorter than 8 bars is no
\* error, support <= resistance when every bar has low <= high, and lows
\* 10,9,...,3 with highs 11,...,18 give support 3 and resistance 18.
C7_BandOverLastEight ==
    /\ Returned =>
          LET n == Len(df.bars)
              m == IF n < 8 THEN n ELSE 8
              W == (n - m + 1)..n
          IN  /\ \E j \in W : df.bars[j].Low = Panel.support
              /\ \A j \in W : Panel.support <= df.bars[j].Low
              /\ \E j \in W : df.bars[j].High = Panel.resistance
              /\ \A j \in W : df.bars[j].High <= Panel.resistance
              /\ (\A j \in 1..n : df.bars[j].Low <= df.bars[j].High)
                    => Panel.support <= Panel.resistance
    /\ (pc = "done" /\ ~df.none /\ df.bars # <<>> /\ info.items = {}) => Returned
    /\ ExampleBand = <<3000, 18000>>

C7_Witness ==
    /\ Returned
    /\ Len(df.bars) > 8
    /\ df.bars[1].Low < Panel.support
    /\ df.bars[1].High > Panel.resistance

MetaBounds(lo, hi) ==
    Dict({<<"fiftyTwoWeekLow", <<lo>>>>, <<"fiftyTwoWeekHigh", <<hi>>>>})

\* close 50 between the bounds 0 and 100, and close 100 with both bounds 100
PercentileExamples ==
    /\ LET q == generate_tactical_panel(
                    Frame(<<Bar(49000, 51000, 50000, 10)>>, {}, <<>>), NoDict,
                    MetaBounds(0, 100000)).value[1].percentile
       IN  q[2] # 0 /\ q[1] = 50 * q[2]
    /\ LET q == generate_tactical_panel(
                    Frame(<<Bar(99000, 101000, 100000, 10)>>, {}, <<>>), NoDict,
                    MetaBounds(100000, 100000)).value[1].percentile
       IN  q[2] # 0 /\ q[1] = 0

\* C8: when the numeric 52-week bounds are equal (taken from the metadata or
\* from the series) the high bound is raised by 0.01 before the division: the
\* divisor is never zero and the percentile is (close - low) / 0.01 * 100,
\* which is 0 when the close is the low; bounds that differ are used as they
\* are, and close 50, low 0, high 100 gives exactly 50.
C8_DegenerateRangeNudged ==
    /\ Returned =>
          LET lo == low_52w(df, info)[1]
              hi == high_52w_raw(df, info)[1]
              pct == Panel.percentile
          IN  /\ pct[2] # 0
              /\ hi = lo => /\ pct[1] * 10 = (LastClose - lo) * 100 * pct[2]
                            /\ LastClose = lo => pct[1] = 0
              /\ hi # lo => pct[1] * (hi - lo) = (LastClose - lo) * 100 * pct[2]
    /\ PercentileExamples

C8_Witness ==
    /\ Returned
    /\ Truthy(info)
    /\ high_52w_raw(df, info) = low_52w(df, info)
    /\ LastClose # low_52w(df, info)[1]
    /\ Panel.percentile[1] * 10 = (LastClose - low_52w(df, info)[1]) * 100 * Panel.percentile[2]

\* the frame with the last RSI value set to x
WithLastRsi(d, x) ==
    [d EXCEPT !.columns = d.columns \cup {"RSI"}, !.RSI = RsiColumn(d.bars, x)]

LastRsiUndefined == "RSI" \notin df.columns \/ df.RSI[Len(df.bars)] = NaN

\* C9: missing secondary inputs get neutral defaults: the result of a call
\* without options data is the result of the same call with put_call_ratio =
\* 1.0 (so the narrative is neutral), and the result of a call whose last RSI
\* value is undefined (NaN, or no RSI column) is the result of the same call
\* with rsi = 50.
C9_NeutralDefaults ==
    (pc = "done" /\ ~df.none /\ df.bars # <<>>) =>
        /\ options_data.none =>
              /\ tactical_panel
                    = generate_tactical_panel(df, Dict({<<"pcr", <<1, 1>>>>}), info)
              /\ Returned => Panel.emotion.narrative = "neutral"
        /\ LastRsiUndefined =>
              tactical_panel
                  = generate_tactical_panel(WithLastRsi(df, <<50, 1>>), options_data, info)

C9_Witness ==
    /\ Returned
    /\ options_data.none
    /\ "RSI" \in df.columns
    /\ df.RSI[Len(df.bars)] = NaN
    /\ Panel.state_title = "DeepValueZone"
    /\ Panel.emotion.narrative = "neutral"

Invoked(f) == \E j \in 1..Len(calls) : calls[j] = f

\* C10: in the page script a failed or empty price fetch ends the run in the
\* load-failure message with no indicator computation, options fetch or panel
\* generation; the generator is invoked only after a non-empty fetch and right
\* after calculate_indicators and get_options_data, whether or not the options
\* fetch produced data.
C10_FetchFailureHaltsPipeline ==
    /\ (pc # "start" /\ ticker # "" /\ ~Loaded) =>
          /\ calls = <<"get_stock_data">>
          /\ tactical_panel = Pending
          /\ pc = "done" => ui = <<"load_failed">>
    /\ (\E j \in 1..Len(ui) : ui[j] = "load_failed") =>
          (~Loaded /\ pc = "done" /\ calls = <<"get_stock_data">>)
    /\ Invoked("generate_tactical_panel") =>
          /\ Loaded
          /\ calls = <<"get_stock_data", "calculate_indicators", "get_options_data",
                       "generate_tactical_panel">>
    /\ (Invoked("get_options_data") /\ pc \in {"render", "crashed", "done"}) =>
          Invoked("generate_tactical_panel")
    /\ pc = "panel" => calls = <<"get_stock_data", "calculate_indicators",
                                 "get_options_data">>

C10_Witness ==
    /\ pc = "done"
    /\ ui = <<"load_failed">>
    /\ calls = <<"get_stock_data">>

C10_OptionsFailureWitness ==
    /\ pc = "done"
    /\ options_data.none
    /\ Returned
    /\ Invoked("generate_tactical_panel")

\* C11: given an absent or empty price series the generator returns no panel
\* and does not raise, and the caller then shows the insufficient-data warning
\* and neither of the two panel regions; a returned panel is shown as the two
\* regions.
C11_NoPanelForEmptySeries ==
    /\ (pc # "call" /\ (df.none \/ df.bars = <<>>)) =>
          /\ tactical_panel = [outcome |-> "return", value |-> <<>>]
          /\ pc = "rendered" => ui = <<"insufficient_data">>
    /\ (pc = "rendered" /\ Returned) => ui = <<"state_region", "action_region">>
    /\ pc = "done" => ui = <<>>

C11_Witness ==
    /\ pc = "rendered"
    /\ ~df.none
    /\ df.bars = <<>>
    /\ tactical_panel.value = <<>>
    /\ ui = <<"insufficient_data">>

\* the bounds the percentile is taken between: the low bound, and the high
\* bound after an equal high bound was raised by 0.01
UsedLow == MetaOr("fiftyTwoWeekLow", SeriesLow)
UsedHigh ==
    IF MetaOr("fiftyTwoWeekHigh", SeriesHigh) = UsedLow
    THEN UsedLow + 10
    ELSE MetaOr("fiftyTwoWeekHigh", SeriesHigh)

\* C12: the percentile is not clamped: it is exactly (close - low) / (high -
\* low) * 100 for the bounds used (low <= high), so it is above 100 when the
\* close is above the high bound and below 0 when the close is below the low
\* bound, and the panel is still returned, as High-Trend above 100 and as
\* Deep-Value below 0.
C12_PercentileNotClamped ==
    Returned =>
        /\ Panel.percentile[2] > 0
        /\ Panel.percentile[1] * (UsedHigh - UsedLow)
              = (LastClose - UsedLow) * 100 * Panel.percentile[2]
        /\ (UsedLow < UsedHigh /\ LastClose > UsedHigh) =>
              /\ Panel.percentile[1] > 100 * Panel.percentile[2]
              /\ Panel.state_title = "HighTrendZone"
        /\ (UsedLow < UsedHigh /\ LastClose < UsedLow) =>
              /\ Panel.percentile[1] < 0
              /\ Panel.state_title = "DeepValueZone"

C12_Witness ==
    /\ Returned
    /\ Truthy(info)
    /\ LastClose > UsedHigh
    /\ Panel.percentile[1] > 100 * Panel.percentile[2]
    /\ Panel.state_title = "HighTrendZone"

C12_BelowZeroWitness ==
    /\ Returned
    /\ Truthy(info)
    /\ LastClose < UsedLow
    /\ Panel.percentile[1] < 0
    /\ Panel.state_title = "DeepValueZone"

\* the mean volume of the whole series, as a fraction
MeanVolume ==
    <<Sum([j \in 1..Len(df.bars) |-> df.bars[j].Volume]), Len(df.bars)>>

\* C13: for a series of fewer than 20 bars the 20-period mean volume is
\* undefined and volume_surge is false whatever the volumes, so a Range-Bound
\* panel whose close is at least 0.95 * resistance ends with the volume-
\* insufficient directive and no panel of such a series has the breakout
\* directive.
C13_NoBreakoutOnShortSeries ==
    (Returned /\ Len(df.bars) < 20) =>
        /\ ~volume_surge(df)
        /\ \A j \in 1..Len(Panel.actions) : Panel.actions[j].kind # "breakout"
        /\ (Panel.state_title = "RangeBoundZone"
            /\ 100 * LastClose >= 95 * Panel.resistance) =>
              Kinds(Panel.actions)
                  = <<"band", "buy_floor_sell_ceiling", "volume_insufficient">>

\* 19 bars whose last volume is more than 1.5 times the mean of all of them
C13_Witness ==
    /\ Returned
    /\ Len(df.bars) = 19
    /\ 2 * df.bars[19].Volume * MeanVolume[2] > 3 * MeanVolume[1]
    /\ Panel.state_title = "RangeBoundZone"
    /\ 100 * LastClose >= 95 * Panel.resistance
    /\ Kinds(Panel.actions) = <<"band", "buy_floor_sell_ceiling", "volume_insufficient">>


\* the loop of the backtest is running or has ended
InBacktest == pc = "loop" \/ (pc = "bt_done" /\ ~backtest.signals.none /\ ~df.none)

LogKinds == [k \in 1..Len(backtest.log) |-> backtest.log[k].kind]
LogRows == { backtest.log[k].row : k \in 1..Len(backtest.log) }

\* after any prefix of the rows: cash and shares are not negative and
\* exactly one of them is positive, the executed trades alternate buy, sell
\* from a buy, a buy sits on a row whose action is +1 and a sell on a row
\* whose action is -1, and the trade count is the number of executed trades
AllInOrAllOut ==
    InBacktest =>
        /\ backtest.balance[2] > 0 /\ backtest.position[2] > 0
        /\ backtest.balance[1] >= 0 /\ backtest.position[1] >= 0
        /\ (backtest.balance[1] > 0) # (backtest.position[1] > 0)
        /\ (backtest.position[1] > 0) <=> (backtest.trades % 2 = 1)
        /\ backtest.trades = Len(backtest.log)
        /\ \A k \in 1..Len(backtest.log) :
              /\ backtest.log[k].kind = IF k % 2 = 1 THEN "buy" ELSE "sell"
              /\ backtest.log[k].row <= backtest.i
              /\ backtest.signals.Position[backtest.log[k].row] =
                    IF backtest.log[k].kind = "buy" THEN <<1, 1>> ELSE <<-1, 1>>
        /\ (pc = "bt_done" /\ backtest.result.value # <<>>) =>
              backtest.result.value[1].trades = backtest.trades

\* one row: it trades exactly when its action is +1 with cash in hand or -1
\* with shares in hand; a buy turns all the cash into shares at the row's
\* close, a sell all the shares into cash, and any other row leaves cash,
\* shares and the trade count as they were
RowStep ==
    (pc = "loop" /\ backtest.i < Len(df.bars)) =>
        LET row == backtest.i + 1
            action == backtest.signals.Position[row]
            close == df.bars[row].Close
            buy == action = <<1, 1>> /\ backtest.balance[1] > 0
            sell == action = <<-1, 1>> /\ backtest.position[1] > 0
        IN  /\ backtest'.i = row
            /\ backtest'.trades = backtest.trades + (IF buy \/ sell THEN 1 ELSE 0)
            /\ ~(buy \/ sell) =>
                  /\ backtest'.balance = backtest.balance
                  /\ backtest'.position = backtest.position
            /\ buy =>
                  /\ backtest'.balance[1] = 0
                  /\ backtest'.position[1] * close * backtest.balance[2]
                        = backtest.balance[1] * 1000 * backtest'.position[2]
            /\ sell =>
                  /\ backtest'.position[1] = 0
                  /\ backtest'.balance[1] * 1000 * backtest.position[2]
                        = backtest.position[1] * close * backtest'.balance[2]

\* C14: during calculate_strategy_performance the portfolio is entirely cash
\* or entirely shares after every row, never negative; a buy executes only
\* on a +1 action with cash, a sell only on a -1 action with shares; the
\* executed trades alternate buy, sell starting with a buy; trades counts
\* exactly the executed trades; a row that cannot execute changes nothing.
C14_AllInOrAllOut == [](AllInOrAllOut) /\ [][RowStep]_vars

\* four rows +1, +1, -1, +1: a buy, a buy that cannot execute, a sell and a
\* buy again, three trades returned
C14_Witness ==
    /\ pc = "bt_done"
    /\ Len(df.bars) = 4
    /\ backtest.signals.Position = <<<<1, 1>>, <<1, 1>>, <<-1, 1>>, <<1, 1>>>>
    /\ LogKinds = <<"buy", "sell", "buy">>
    /\ LogRows = {1, 3, 4}
    /\ backtest.result.value # <<>>
    /\ backtest.result.value[1].trades = 3
    /\ backtest.balance[1] = 0 /\ backtest.position[1] > 0

\* signals of the 'rsi' strategy that open with a sell there is nothing to
\* sell for: the backtest ends in cash, untouched
C14_SkippedSellWitness ==
    /\ pc = "bt_done"
    /\ "run_strategy" \in Range(calls)
    /\ \E j \in 1..Len(df.bars) : backtest.signals.Position[j] = <<-1, 1>>
    /\ backtest.log = <<>>
    /\ backtest.balance = <<InitialCapital, 1>>
    /\ backtest.result.value # <<>>
    /\ backtest.result.value[1].trades = 0

====
